---- MODULE Spec2Model ----
(***************************************************************************)
(* Model of src/App.tsx: the App shell (selected / svg / dark / copyStatus *)
(* state, theme effect, copy and export handlers) and the MermaidRenderer  *)
(* effect with its per-invocation `active` flag.                           *)
(*                                                                         *)
(* Scheduling model: one browser event loop.  Each action below is one     *)
(* task or microtask run to completion: a click together with the React    *)
(* re-render and the effects it flushes, the settlement of one promise     *)
(* with the handlers chained on it, or one timer callback.                 *)
(*                                                                         *)
(* Representation:                                                         *)
(*  - a render invocation (one run of the MermaidRenderer effect) is an    *)
(*    entry of `renders`; its index is the invocation's token, standing    *)
(*    for the unique id `mmd_...` that the effect draws;                   *)
(*  - the svg string produced by invocation t is written t; the empty      *)
(*    string "" is written 0 (NoSvg);                                      *)
(*  - a title is a sequence of tokens, the space characters being tokens   *)
(*    of their own, so that replace(/ /g, "_") is computed, not assumed;   *)
(*  - a diagram's `code` is an opaque string, only compared for equality.  *)
(***************************************************************************)
EXTENDS Integers, Sequences, FiniteSets, TLC

\* ------------------------------------------------------------- bounds
\* Largest number of engine render calls issued in one behaviour.
MaxRenders == 3
\* Largest number of clipboard writes started in one behaviour.
MaxCopies == 2
\* Number of catalog entries (a prefix of the catalog) the sidebar offers.
MaxCatalog == 3

\* ------------------------------------------------------------- constants
\* setTimeout delay of handleCopy, in milliseconds.
CopiedDuration == 2000

\* The clock advances in steps of half the delay, so that a second copy can
\* fall strictly inside the delay of the first.
TickStep == CopiedDuration \div 2

DefaultLabel == "Copy Mermaid"
CopiedLabel == "Copied!"

\* The catalog (const diagrams).  obj = "catalog" marks the array's own object;
\* a spread copy {...prev} has the same fields and obj = "copy" (object
\* identity is what React's Object.is bail-out and setSelected observe).
diagrams ==
  << [id |-> "OTO0", group |-> "Otomato Platform",
      title |-> <<"System", " ", "Overview", " ", "(Use-Case)">>,
      code |-> "code(OTO0)", obj |-> "catalog"],
     [id |-> "OTO1", group |-> "Otomato Platform",
      title |-> <<"No-Code", " ", "Automation", " ", "Workflow", " ", "(Flowchart)">>,
      code |-> "code(OTO1)", obj |-> "catalog"],
     [id |-> "OTO2", group |-> "Otomato Platform",
      title |-> <<"Technology", " ", "Ecosystem", " ", "(Component", " ", "View)">>,
      code |-> "code(OTO2)", obj |-> "catalog"],
     [id |-> "OTO3", group |-> "Strategy & Growth",
      title |-> <<"Funding", " ", "&", " ", "Partnerships", " ", "(Sequence)">>,
      code |-> "code(OTO3)", obj |-> "catalog"],
     [id |-> "OTO4", group |-> "Strategy & Growth",
      title |-> <<"Project", " ", "Launch", " ", "Roadmap", " ", "(Flowchart)">>,
      code |-> "code(OTO4)", obj |-> "catalog"] >>

\* Indices of the sidebar buttons the model clicks.
Items == 1 .. (IF MaxCatalog < Len(diagrams) THEN MaxCatalog ELSE Len(diagrams))

VARIABLES
  phase,        \* "constructed" (first render pass done, effects not yet run),
                \* "mounted", "unmounted"
  selected,     \* App state `selected`
  svg,          \* App state `svg` (lastArtifact): 0 is "", t the svg of render t
  dark,         \* App state `dark`
  copyStatus,   \* App state `copyStatus`
  engineTheme,  \* theme of the last mermaid.initialize, "unset" before the first
  renders,      \* the MermaidRenderer effect's invocations, in issue order
  innerHTML,    \* ref.current.innerHTML of the MermaidRenderer div
  writes,       \* the clipboard writes started by handleCopy, in issue order
  timers,       \* the pending setTimeout callbacks, in creation order: for
                \* each the milliseconds left until it is due (0: due)
  triggered,    \* the download that the step just taken handed to the browser
                \* (a.click()), NoDownload when it triggered none
  items,        \* Sidebar prop `items`
  groups,       \* Sidebar's memoised `groups`, << >> until computed
  rawCode,      \* the `code` that the .catch handler escapes, as characters
  safeCode      \* the handler's `safeCode`, << >> until computed

vars == << phase, selected, svg, dark, copyStatus, engineTheme, renders,
           innerHTML, writes, timers, triggered, items, groups, rawCode,
           safeCode >>

\* The grouping and the escaping are pure functions of their inputs and are
\* explored on their own (SpecSidebar, SpecEscape), over inputs wider than
\* the catalog; the shell's actions leave these four variables alone.
derived == << items, groups, rawCode, safeCode >>

NoSvg == 0
NoDownload == [name |-> << >>, svg |-> NoSvg, type |-> "none"]

\* ref.current is the div while the component is mounted, null otherwise.
RefCurrent == phase = "mounted"

\* ------------------------------------------------------------- helpers
\* initMermaid(dark): the theme handed to mermaid.initialize.
initMermaid(d) == IF d THEN "dark" ELSE "default"

\* String.prototype.replace with a global pattern of one character.
Replace(s, from, to) == [i \in DOMAIN s |-> IF s[i] = from THEN to ELSE s[i]]

\* download(name, svg): the file handed to the browser.
download(name, payload) ==
  [name |-> name \o <<".svg">>, svg |-> payload, type |-> "image/svg+xml"]

\* Mutant of copy: the catch block also returns true.
copy_catchReturnsTrue(outcome) == TRUE

\* copy(text): what the async function resolves to, given how
\* navigator.clipboard.writeText settled.
copy(outcome) == IF outcome = "fulfilled" THEN TRUE ELSE FALSE

\* Mutant of ExportDisabled: the button carries no `disabled` attribute.
ExportDisabled_never == FALSE

\* The Export button's `disabled` attribute.
ExportDisabled == svg = NoSvg

Spinner == [kind |-> "spinner", of |-> 0]

\* One run of the MermaidRenderer effect body: `let active = true`, the id,
\* and the call window.mermaid.render(id, code).  `dark` and `config` record
\* App's theme flag and the engine's configured theme when the call is issued
\* (the engine is an external function of source and configuration).
\* `settledActive` records the value of `active` that the handlers saw when
\* the promise settled.
NewRender(code, d, config) ==
  [code |-> code, dark |-> d, config |-> config,
   active |-> TRUE, status |-> "pending", settledActive |-> FALSE]

\* Mutant of Cleanup: the effect returns no cleanup function.
Cleanup_missing(rs) == rs

\* The effect's cleanup, `active = false`, for the invocation it belongs to
\* (earlier invocations were cleaned up before).
Cleanup(rs) ==
  [t \in DOMAIN rs |-> [rs[t] EXCEPT !.active = FALSE]]

\* Mutant of DepsChanged: the effect has no dependency array and re-runs
\* after every re-render of the component.
DepsChanged_always(prevCode, nextCode) == TRUE

\* useEffect(..., [code, onRender]): onRender is setSvg, whose identity is
\* stable, so the effect re-runs exactly when the `code` string changes.
DepsChanged(prevCode, nextCode) == prevCode # nextCode

\* Mutant of RendererUpdate: the effect issues the render call without first
\* replacing the previous content by the loading indicator.
RendererUpdate_keepsContent(prevCode, nextCode, d, config) ==
  IF DepsChanged(prevCode, nextCode)
  THEN /\ Len(renders) < MaxRenders
       /\ renders' = Append(Cleanup(renders), NewRender(nextCode, d, config))
       /\ UNCHANGED innerHTML
  ELSE UNCHANGED << renders, innerHTML >>

\* MermaidRenderer after a re-render of App with prop `code` = nextCode:
\* when the deps changed, cleanup of the previous run, then a new run
\* (spinner, render call); otherwise nothing.
RendererUpdate(prevCode, nextCode, d, config) ==
  IF DepsChanged(prevCode, nextCode)
  THEN /\ Len(renders) < MaxRenders
       /\ renders' = Append(Cleanup(renders), NewRender(nextCode, d, config))
       /\ innerHTML' = Spinner
  ELSE UNCHANGED << renders, innerHTML >>

\* .then(({ svg }) => { if (!active) return; ... onRender(svg); }) of render t.
OnFulfilled(t) ==
  IF ~renders[t].active
  THEN UNCHANGED << innerHTML, svg >>
  ELSE /\ innerHTML' = IF RefCurrent THEN [kind |-> "svg", of |-> t] ELSE innerHTML
       /\ svg' = t

\* Mutant of OnRejected: the catch handler also reports to the shell,
\* onRender(""), clearing the artifact.
OnRejected_clearsArtifact(t) ==
  /\ innerHTML' = IF RefCurrent THEN [kind |-> "error", of |-> t] ELSE innerHTML
  /\ svg' = NoSvg

\* Mutant of OnRejected: the rejection is routed to the success path,
\* onRender(String(err)), so the callback stores the failed invocation's text.
OnRejected_callsOnRender(t) ==
  /\ innerHTML' = IF RefCurrent THEN [kind |-> "error", of |-> t] ELSE innerHTML
  /\ svg' = t

\* .catch((err) => { if (ref.current) { ... innerHTML = error panel } }) of
\* render t: no test of `active`, no call of onRender.
OnRejected(t) ==
  /\ innerHTML' = IF RefCurrent THEN [kind |-> "error", of |-> t] ELSE innerHTML
  /\ UNCHANGED svg

\* Mutant of AppInit: useState<boolean>(true) for `dark`.
AppInit_startsDark ==
  /\ phase = "constructed"
  /\ selected = diagrams[1]
  /\ svg = NoSvg
  /\ dark = TRUE
  /\ copyStatus = DefaultLabel
  /\ engineTheme = "unset"
  /\ renders = << >>
  /\ innerHTML = [kind |-> "empty", of |-> 0]
  /\ writes = << >>
  /\ timers = << >>
  /\ triggered = [name |-> << >>, svg |-> NoSvg, type |-> "none"]

\* ------------------------------------------------------------- Init
\* App's state after the first render pass.
AppInit ==
  /\ phase = "constructed"
  /\ selected = diagrams[1]
  /\ svg = NoSvg
  /\ dark = FALSE
  /\ copyStatus = DefaultLabel
  /\ engineTheme = "unset"
  /\ renders = << >>
  /\ innerHTML = [kind |-> "empty", of |-> 0]
  /\ writes = << >>
  /\ timers = << >>
  /\ triggered = NoDownload

Init ==
  /\ AppInit
  /\ items = << >>
  /\ groups = << >>
  /\ rawCode = << >>
  /\ safeCode = << >>

\* ------------------------------------------------------------- actions
\* A step other than a click on Export hands no file to the browser.
NoTrigger == triggered' = NoDownload

\* First commit: React runs the passive effects child first, so the
\* MermaidRenderer effect (spinner, render call) runs before App's [dark]
\* effect (initMermaid, setSelected(prev => ({...prev}))).  The re-render the
\* latter causes leaves `code` unchanged, so the renderer effect does not re-run.
Mount ==
  /\ phase = "constructed"
  /\ phase' = "mounted"
  /\ innerHTML' = Spinner
  /\ renders' = Append(renders, NewRender(selected.code, dark, engineTheme))
  /\ engineTheme' = initMermaid(dark)
  /\ selected' = [selected EXCEPT !.obj = "copy"]
  /\ NoTrigger
  /\ UNCHANGED derived
  /\ UNCHANGED << svg, dark, copyStatus, writes, timers >>

\* Mutant of Select: every sidebar button passes the catalog's first entry,
\* onSelect(items[0]).
Select_firstEntry(i) ==
  /\ phase = "mounted"
  /\ LET d == diagrams[1] IN
     IF d = selected
     THEN UNCHANGED << selected, renders, innerHTML >>
     ELSE /\ selected' = d
          /\ RendererUpdate(selected.code, d.code, dark, engineTheme)
  /\ triggered' = [name |-> << >>, svg |-> NoSvg, type |-> "none"]
  /\ UNCHANGED << items, groups, rawCode, safeCode >>
  /\ UNCHANGED << phase, svg, dark, copyStatus, engineTheme, writes, timers >>

\* Sidebar button i: onSelect(d) = setSelected(d) with the catalog's object.
\* React bails out when the new state is the same object (Object.is);
\* otherwise App re-renders and MermaidRenderer receives d.code.
Select(i) ==
  /\ phase = "mounted"
  /\ LET d == diagrams[i] IN
     IF d = selected
     THEN UNCHANGED << selected, renders, innerHTML >>
     ELSE /\ selected' = d
          /\ RendererUpdate(selected.code, d.code, dark, engineTheme)
  /\ NoTrigger
  /\ UNCHANGED derived
  /\ UNCHANGED << phase, svg, dark, copyStatus, engineTheme, writes, timers >>

\* Theme button: setDark(v => !v), then App's [dark] effect: initMermaid(dark)
\* and setSelected(prev => ({...prev})), then the re-render that causes, in
\* which MermaidRenderer receives the same `code`.
ToggleTheme ==
  /\ phase = "mounted"
  /\ dark' = ~dark
  /\ engineTheme' = initMermaid(dark')
  /\ selected' = [selected EXCEPT !.obj = "copy"]
  /\ RendererUpdate(selected.code, selected'.code, dark', engineTheme')
  /\ NoTrigger
  /\ UNCHANGED derived
  /\ UNCHANGED << phase, svg, copyStatus, writes, timers >>

\* The promise of render t is fulfilled by the engine.
RenderFulfil(t) ==
  /\ t \in DOMAIN renders
  /\ renders[t].status = "pending"
  /\ renders' = [renders EXCEPT ![t].status = "fulfilled",
                                ![t].settledActive = renders[t].active]
  /\ OnFulfilled(t)
  /\ NoTrigger
  /\ UNCHANGED derived
  /\ UNCHANGED << phase, selected, dark, copyStatus, engineTheme, writes, timers >>

\* The promise of render t is rejected by the engine.
RenderReject(t) ==
  /\ t \in DOMAIN renders
  /\ renders[t].status = "pending"
  /\ renders' = [renders EXCEPT ![t].status = "rejected",
                                ![t].settledActive = renders[t].active]
  /\ OnRejected(t)
  /\ NoTrigger
  /\ UNCHANGED derived
  /\ UNCHANGED << phase, selected, dark, copyStatus, engineTheme, writes, timers >>

\* Copy button: handleCopy starts copy(selected.code), i.e. one
\* navigator.clipboard.writeText, and returns.
HandleCopy ==
  /\ phase = "mounted"
  /\ Len(writes) < MaxCopies
  /\ writes' = Append(writes, "pending")
  /\ NoTrigger
  /\ UNCHANGED derived
  /\ UNCHANGED << phase, selected, svg, dark, copyStatus, engineTheme, renders,
                  innerHTML, timers >>

\* Mutant of OnCopied: the label is set but no timer is created.
OnCopied_noTimer(success) ==
  IF success
  THEN /\ copyStatus' = IF phase = "mounted" THEN CopiedLabel ELSE copyStatus
       /\ UNCHANGED timers
  ELSE UNCHANGED << copyStatus, timers >>

\* The .then(success => ...) of handleCopy.  A state setter called after the
\* component is unmounted changes nothing; the timer is created regardless.
OnCopied(success) ==
  IF success
  THEN /\ copyStatus' = IF phase = "mounted" THEN CopiedLabel ELSE copyStatus
       /\ timers' = Append(timers, CopiedDuration)
  ELSE UNCHANGED << copyStatus, timers >>

\* Clipboard write i settles with `outcome`; copy resolves; handleCopy's
\* continuation runs.
WriteSettle(i, outcome) ==
  /\ i \in DOMAIN writes
  /\ writes[i] = "pending"
  /\ writes' = [writes EXCEPT ![i] = outcome]
  /\ OnCopied(copy(outcome))
  /\ NoTrigger
  /\ UNCHANGED derived
  /\ UNCHANGED << phase, selected, svg, dark, engineTheme, renders, innerHTML >>

\* The oldest timer is due: () => setCopyStatus("Copy Mermaid").  Nothing
\* cancels a timer; the browser runs a due callback at or after its deadline.
TimerFire ==
  /\ timers # << >>
  /\ Head(timers) = 0
  /\ timers' = Tail(timers)
  /\ copyStatus' = IF phase = "mounted" THEN DefaultLabel ELSE copyStatus
  /\ NoTrigger
  /\ UNCHANGED derived
  /\ UNCHANGED << phase, selected, svg, dark, engineTheme, renders, innerHTML,
                  writes >>

\* TickStep milliseconds pass (observable only while a timer is not yet due).
Tick ==
  /\ \E i \in DOMAIN timers : timers[i] > 0
  /\ timers' = [i \in DOMAIN timers |->
                  IF timers[i] > TickStep THEN timers[i] - TickStep ELSE 0]
  /\ NoTrigger
  /\ UNCHANGED derived
  /\ UNCHANGED << phase, selected, svg, dark, copyStatus, engineTheme, renders,
                  innerHTML, writes >>

\* Export button, clickable unless disabled={!svg}:
\* download(selected.title.replace(/ /g, "_"), svg).
ClickExport ==
  /\ phase = "mounted"
  /\ ~ExportDisabled
  /\ triggered' = download(Replace(selected.title, " ", "_"), svg)
  /\ UNCHANGED derived
  /\ UNCHANGED << phase, selected, svg, dark, copyStatus, engineTheme, renders,
                  innerHTML, writes, timers >>

\* The root is unmounted: the renderer effect's cleanup runs and the ref is
\* detached.
Unmount ==
  /\ phase = "mounted"
  /\ phase' = "unmounted"
  /\ renders' = Cleanup(renders)
  /\ NoTrigger
  /\ UNCHANGED derived
  /\ UNCHANGED << selected, svg, dark, copyStatus, engineTheme, innerHTML,
                  writes, timers >>

Next ==
  \/ Mount
  \/ \E i \in Items : Select(i)
  \/ ToggleTheme
  \/ \E t \in 1 .. MaxRenders : RenderFulfil(t)
  \/ \E t \in 1 .. MaxRenders : RenderReject(t)
  \/ HandleCopy
  \/ \E i \in 1 .. MaxCopies : \E o \in {"fulfilled", "rejected"} : WriteSettle(i, o)
  \/ TimerFire
  \/ Tick
  \/ ClickExport
  \/ Unmount

Spec == Init /\ [][Next]_vars

\* The two halves of the program.  The copy actions (HandleCopy, WriteSettle,
\* TimerFire, Tick) read `phase` only and write writes, timers and copyStatus
\* only; the actions that settle a render or export read and write none of
\* these.  A property of the view's variables is therefore decided by the
\* behaviours of NextView and a property of the copy label by those of
\* NextCopy; Spec, the whole program, interleaves the two.
NextView ==
  \/ Mount
  \/ \E i \in Items : Select(i)
  \/ ToggleTheme
  \/ \E t \in 1 .. MaxRenders : RenderFulfil(t)
  \/ \E t \in 1 .. MaxRenders : RenderReject(t)
  \/ ClickExport
  \/ Unmount

SpecView == Init /\ [][NextView]_vars

NextCopy ==
  \/ Mount
  \/ \E i \in Items : Select(i)
  \/ ToggleTheme
  \/ HandleCopy
  \/ \E i \in 1 .. MaxCopies : \E o \in {"fulfilled", "rejected"} : WriteSettle(i, o)
  \/ TimerFire
  \/ Tick
  \/ Unmount

SpecCopy == Init /\ [][NextCopy]_vars

\* The whole shell while mounted, explored one render call, one clipboard
\* write and one catalog entry short of the bounds: every action of the view
\* interleaved with every action of the copy label.
ShellLimit ==
  /\ Len(renders') < MaxRenders
  /\ Len(writes') < MaxCopies
  /\ \E i \in Items : i < Cardinality(Items) /\ selected'.id = diagrams[i].id

NextShell ==
  \/ Mount /\ ShellLimit
  \/ \E i \in Items : Select(i) /\ ShellLimit
  \/ ToggleTheme /\ ShellLimit
  \/ \E t \in 1 .. MaxRenders : RenderFulfil(t) /\ ShellLimit
  \/ \E t \in 1 .. MaxRenders : RenderReject(t) /\ ShellLimit
  \/ HandleCopy /\ ShellLimit
  \/ \E i \in 1 .. MaxCopies : \E o \in {"fulfilled", "rejected"} :
       WriteSettle(i, o) /\ ShellLimit
  \/ TimerFire /\ ShellLimit
  \/ Tick /\ ShellLimit
  \/ ClickExport /\ ShellLimit

SpecShell == Init /\ [][NextShell]_vars

\* ------------------------------------------------------------- Sidebar
\* Largest catalog handed to the Sidebar.
MaxItems == 3
GroupLabels == { "G1", "G2", "G3" }

\* The part of a Diagram the Sidebar's grouping reads (group) and the part
\* that tells the records apart (id).
SidebarRecords == [id : 1 .. MaxItems, group : GroupLabels]

\* Catalogs: finite sequences of records with unique ids.
Catalogs ==
  { c \in UNION { [1 .. n -> SidebarRecords] : n \in 0 .. MaxItems } :
      \A i, j \in DOMAIN c : c[i].id = c[j].id => i = j }

\* Mutant of GroupEntries: a new entry is opened whenever the label differs
\* from the label of the entry filled last.
RECURSIVE GroupEntries_consecutive(_, _)
GroupEntries_consecutive(its, n) ==
  IF n = 0 THEN << >>
  ELSE LET m == GroupEntries_consecutive(its, n - 1)
           d == its[n]
       IN  IF m # << >> /\ m[Len(m)][1] = d.group
           THEN [m EXCEPT ![Len(m)] = << d.group, Append(m[Len(m)][2], d) >>]
           ELSE Append(m, << d.group, << d >> >>)

\* The Map after items.forEach has visited the first n items, as its entries
\* [group, ds] in insertion order: `if (!m.has(d.group)) m.set(d.group, [])`
\* appends an entry, `m.get(d.group)?.push(d)` appends d to the entry's array.
RECURSIVE GroupEntries(_, _)
GroupEntries(its, n) ==
  IF n = 0 THEN << >>
  ELSE LET m == GroupEntries(its, n - 1)
           d == its[n]
       IN  IF \E k \in DOMAIN m : m[k][1] = d.group
           THEN [k \in DOMAIN m |->
                   IF m[k][1] = d.group
                   THEN << m[k][1], Append(m[k][2], d) >>
                   ELSE m[k]]
           ELSE Append(m, << d.group, << d >> >>)

InitSidebar ==
  /\ AppInit
  /\ items \in Catalogs
  /\ groups = << >>
  /\ rawCode = << >>
  /\ safeCode = << >>

\* Sidebar's useMemo: Array.from(m.entries()) after the forEach.
SidebarGroups ==
  /\ groups' = GroupEntries(items, Len(items))
  /\ UNCHANGED << phase, selected, svg, dark, copyStatus, engineTheme, renders,
                  innerHTML, writes, timers, triggered, items, rawCode,
                  safeCode >>

NextSidebar == SidebarGroups

SpecSidebar == InitSidebar /\ [][NextSidebar]_vars

\* ------------------------------------------------------------- escaping
\* Longest source text handed to the escaping.
MaxCodeLen == 4
\* The three escaped characters and the letters of one entity name.
Alphabet == { "&", "<", ">", "l", "t", ";" }
SourceTexts == UNION { [1 .. n -> Alphabet] : n \in 0 .. MaxCodeLen }

\* String.prototype.replace with a global pattern of one character and a
\* replacement text.
RECURSIVE ReplaceAll(_, _, _)
ReplaceAll(s, ch, text) ==
  IF s = << >> THEN << >>
  ELSE (IF Head(s) = ch THEN text ELSE << Head(s) >>)
         \o ReplaceAll(Tail(s), ch, text)

\* Mutant of Escape: the ampersand pass runs last.
Escape_ampersandLast(text) ==
  ReplaceAll(ReplaceAll(ReplaceAll(text,
      "<", << "&", "l", "t", ";" >>),
      ">", << "&", "g", "t", ";" >>),
      "&", << "&", "a", "m", "p", ";" >>)

\* code.replace(/&/g, "&amp;").replace(/</g, "&lt;").replace(/>/g, "&gt;")
Escape(text) ==
  ReplaceAll(ReplaceAll(ReplaceAll(text,
      "&", << "&", "a", "m", "p", ";" >>),
      "<", << "&", "l", "t", ";" >>),
      ">", << "&", "g", "t", ";" >>)

InitEscape ==
  /\ AppInit
  /\ items = << >>
  /\ groups = << >>
  /\ rawCode \in SourceTexts
  /\ safeCode = << >>

\* The .catch handler computes safeCode from the effect's `code`.
CatchEscape ==
  /\ safeCode' = Escape(rawCode)
  /\ UNCHANGED << phase, selected, svg, dark, copyStatus, engineTheme, renders,
                  innerHTML, writes, timers, triggered, items, groups,
                  rawCode >>

NextEscape == CatchEscape

SpecEscape == InitEscape /\ [][NextEscape]_vars


\* ------------------------------------------------------------- claims
Settled(t) == renders[t].status # "pending"

\* Invocations whose handlers ran while their `active` flag was still true.
\* An invocation is active only until the next one is issued, so these settle
\* in issue order and the largest is the most recent.
LiveSettled == { t \in DOMAIN renders : Settled(t) /\ renders[t].settledActive }

MostRecentLive == CHOOSE t \in LiveSettled : \A u \in LiveSettled : u <= t

LastLiveFailed ==
  LiveSettled # {} /\ renders[MostRecentLive].status = "rejected"

EverRendered == \E t \in LiveSettled : renders[t].status = "fulfilled"

\* C1 (as claimed): a render that was superseded by a later one before it
\* settled never shows in the view or in lastArtifact, whether it succeeded
\* or failed: neither the view's content nor svg is that render's result.
C1_StaleResultDiscarded ==
  \A a \in DOMAIN renders :
    (a < Len(renders) /\ Settled(a) /\ ~renders[a].settledActive)
      => (innerHTML.of # a /\ svg # a)

\* C2 (as claimed): every step that toggles the theme issues exactly one new
\* engine render call, for the active diagram's source, with the engine
\* already configured for the new theme.
C2_ToggleIssuesOneRender ==
  [][ dark' # dark =>
        /\ Len(renders') = Len(renders) + 1
        /\ renders'[Len(renders')].code = selected'.code
        /\ renders'[Len(renders')].config = initMermaid(dark') ]_vars

\* C3 (as claimed): every step that selects the diagram whose id is already
\* the active one issues exactly one new engine render call.
C3_ReselectIssuesOneRender ==
  [][ \A i \in Items :
        (Select(i) /\ diagrams[i].id = selected.id)
          => Len(renders') = Len(renders) + 1 ]_vars

\* C4 (as claimed): every engine render call is issued with the engine
\* already configured, and configured for the theme in force at that moment.
C4_ConfiguredBeforeRender ==
  \A t \in DOMAIN renders : renders[t].config = initMermaid(renders[t].dark)

\* C5 (as claimed): a render whose theme was changed while it was
\* outstanding is stale: when it settles, neither the view's content nor
\* lastArtifact changes.
C5_ThemeChangeCancels ==
  [][ \A t \in DOMAIN renders :
        (renders[t].status = "pending" /\ renders'[t].status # "pending"
           /\ renders[t].dark # dark)
          => (innerHTML' = innerHTML /\ svg' = svg) ]_vars

\* C6: a step in which a render fails (live or stale) leaves lastArtifact,
\* active and theme as they were; onRender would have changed svg to the
\* invocation's own text.
C6_FailureLeavesArtifact ==
  [][ \A t \in DOMAIN renders :
        (renders[t].status = "pending" /\ renders'[t].status = "rejected")
          => (svg' = svg /\ selected' = selected /\ dark' = dark) ]_vars

\* C6 witness: a render failed, its error panel is shown, and the artifact of
\* an earlier render is still the exportable one.
C6_Witness ==
  \E t \in DOMAIN renders :
    /\ renders[t].status = "rejected"
    /\ innerHTML = [kind |-> "error", of |-> t]
    /\ svg # NoSvg

\* C7 (as claimed): whenever the most recent live completion is a failure,
\* export is disabled.
C7_ExportDisabledAfterFailure == LastLiveFailed => ExportDisabled

\* What the program does instead of C7: whenever the most recent live
\* completion is a failure, export is disabled exactly when no render has
\* succeeded before: the failure leaves the enablement as it was.
C7_ExportFollowsEarlierSuccess ==
  LastLiveFailed => (ExportDisabled <=> ~EverRendered)

\* The state that refutes C7: the live render failed after an earlier diagram
\* had rendered, and export is enabled.
C7_Witness == LastLiveFailed /\ EverRendered /\ ~ExportDisabled

\* C8: while lastArtifact is empty the Export button is disabled and no
\* download is triggered; a download is triggered only with lastArtifact
\* non-empty, and its payload is lastArtifact.
C8_ExportGating ==
  /\ svg = NoSvg => (~ENABLED ClickExport /\ triggered = NoDownload)
  /\ triggered # NoDownload => (svg # NoSvg /\ triggered.svg = svg)

\* C8 witness: a download was triggered.
C8_Witness == triggered # NoDownload /\ triggered.svg = svg

\* C9 (as claimed): when the label goes back from "Copied!" to the default,
\* two seconds have passed since the latest successful copy: no timer of a
\* successful copy is still short of its deadline.
C9_CopiedForFullDuration ==
  [][ (copyStatus = CopiedLabel /\ copyStatus' = DefaultLabel)
        => \A i \in DOMAIN timers' : timers'[i] = 0 ]_vars

\* C10: a step in which a clipboard write is rejected changes neither the
\* label nor the timers nor active, theme or lastArtifact.
C10_CopyFailureSilent ==
  [][ \A i \in DOMAIN writes :
        (writes[i] = "pending" /\ writes'[i] = "rejected")
          => /\ copyStatus' = copyStatus
             /\ timers' = timers
             /\ selected' = selected
             /\ dark' = dark
             /\ svg' = svg ]_vars

\* C10 witness: a write was rejected while the label showed "Copied!" with
\* its timer pending, and the label still shows it.
C10_Witness ==
  /\ \E i \in DOMAIN writes : writes[i] = "rejected"
  /\ copyStatus = CopiedLabel
  /\ timers # << >>

\* The fields a Diagram carries, without the object's identity.
Fields(d) == [id |-> d.id, group |-> d.group, title |-> d.title, code |-> d.code]

\* C11: `selected` always carries the id, title and source of exactly one
\* catalog entry; a step that selects entry i makes its id the active id, and
\* no other step (render completion, theme toggle, copy, timer, export)
\* changes the active id.
C11_SelectionKept ==
  /\ [](Cardinality({ i \in DOMAIN diagrams :
                        Fields(diagrams[i]) = Fields(selected) }) = 1)
  /\ [][ /\ \A i \in Items : Select(i) => selected'.id = diagrams[i].id
         /\ (~ \E i \in Items : Select(i)) => selected'.id = selected.id ]_vars

\* C11 witness: an entry other than the first was selected, the theme toggle
\* replaced the record by a copy, a render completed, and the id is still that
\* entry's.
C11_Witness ==
  /\ selected.id = diagrams[2].id
  /\ selected.obj = "copy"
  /\ dark
  /\ svg # NoSvg
  /\ \E i \in DOMAIN writes : writes[i] = "fulfilled"
  /\ triggered # NoDownload

\* What the shell shows before any user action.
InitialShell ==
  /\ Fields(selected) = Fields(diagrams[1])
  /\ dark = FALSE
  /\ svg = NoSvg
  /\ copyStatus = DefaultLabel
  /\ ExportDisabled

\* C12: the constructed state has the catalog's first entry active, the light
\* theme, an empty lastArtifact, the default label and export disabled, and
\* the mount-time effects leave all of these as they are.
C12_InitialState ==
  /\ [](phase = "constructed" => InitialShell)
  /\ [][ phase = "constructed" => InitialShell' ]_vars

\* C12 witness: the mount-time effects have run (the first render is
\* outstanding, the record is the theme effect's copy) and the shell is as
\* constructed.
C12_Witness ==
  /\ phase = "mounted"
  /\ selected.obj = "copy"
  /\ Len(renders) = 1
  /\ renders[1].status = "pending"
  /\ InitialShell

\* C13 (as claimed): while the most recently issued render of the mounted view
\* is outstanding, the view shows the loading indicator.
C13_SpinnerWhileOutstanding ==
  (phase = "mounted" /\ renders # << >> /\ ~Settled(Len(renders)))
    => innerHTML = Spinner

\* C14: a step that changes the active source issues exactly one render call,
\* for the new source and as the last in issue order, with every earlier
\* invocation's flag false and the new one's true, and the view shows the
\* loading indicator whatever it showed before.
C14_SourceChangeRerenders ==
  [][ (phase = "mounted" /\ selected'.code # selected.code) =>
        /\ Len(renders') = Len(renders) + 1
        /\ \A t \in DOMAIN renders :
             /\ ~renders'[t].active
             /\ renders'[t].code = renders[t].code
        /\ renders'[Len(renders')].code = selected'.code
        /\ renders'[Len(renders')].active
        /\ renders'[Len(renders')].status = "pending"
        /\ innerHTML' = Spinner ]_vars

\* C14 witness: the view was in Failed (the live render had failed), a new
\* source was selected, and the view is in Rendering for it.
C14_Witness ==
  /\ Len(renders) >= 2
  /\ renders[Len(renders) - 1].status = "rejected"
  /\ renders[Len(renders) - 1].settledActive
  /\ renders[Len(renders)].code = selected.code
  /\ ~Settled(Len(renders))
  /\ innerHTML = Spinner

\* The live render (the last issued, settled while its flag was true) failed:
\* the view is in Failed for the current input.
LiveFailed ==
  /\ renders # << >>
  /\ renders[Len(renders)].status = "rejected"
  /\ renders[Len(renders)].settledActive

\* A copy, timer or export event.
CopyTimerOrExport ==
  \/ HandleCopy
  \/ \E i \in 1 .. MaxCopies : \E o \in {"fulfilled", "rejected"} : WriteSettle(i, o)
  \/ TimerFire
  \/ Tick
  \/ ClickExport

\* C15: once the live render has failed, no step that leaves the source as it
\* is issues a render call, and copy, timer and export events leave the error
\* panel in place.
C15_NoAutomaticRetry ==
  [][ /\ (LiveFailed /\ selected'.code = selected.code)
           => Len(renders') = Len(renders)
      /\ (LiveFailed /\ CopyTimerOrExport)
           => (innerHTML' = innerHTML /\ innerHTML.kind = "error"
                 /\ renders' = renders) ]_vars

\* C15 witness: the live render failed, then a copy succeeded and its timer
\* fired, the export button was clicked, and the failed invocation's error
\* panel is still shown with no later render call.
C15_Witness ==
  /\ LiveFailed
  /\ innerHTML = [kind |-> "error", of |-> Len(renders)]
  /\ \E i \in DOMAIN writes : writes[i] = "fulfilled"
  /\ timers = << >>
  /\ triggered # NoDownload

\* The records of `its` whose label is g, in the order of `its`.
WithLabel(its, g) ==
  LET Labelled(d) == d.group = g IN SelectSeq(its, Labelled)

\* Position of the first record of `its` whose label is g.
FirstOccurrence(its, g) ==
  CHOOSE i \in DOMAIN its :
    its[i].group = g /\ \A j \in DOMAIN its : its[j].group = g => i <= j

\* Number of places (group k, position j) at which `gs` holds record d.
Places(gs, d) ==
  Cardinality({ kj \in (DOMAIN gs) \X (1 .. MaxItems + 1) :
                  kj[2] \in DOMAIN gs[kj[1]][2] /\ gs[kj[1]][2][kj[2]] = d })

\* C16: once the Sidebar has computed its groups for a catalog with unique
\* ids, every record is held at exactly one place, in the group that carries
\* its label; the groups hold nothing else; the groups come in the order in
\* which their labels first occur in the catalog; and each group lists its
\* records in catalog order.
C16_GroupingPartitions ==
  (groups # << >>) =>
    /\ \A i \in DOMAIN items :
         /\ Places(groups, items[i]) = 1
         /\ \E k \in DOMAIN groups :
              /\ groups[k][1] = items[i].group
              /\ \E j \in DOMAIN groups[k][2] : groups[k][2][j] = items[i]
    /\ \A k \in DOMAIN groups :
         /\ groups[k][2] # << >>
         /\ groups[k][2] = WithLabel(items, groups[k][1])
    /\ \A k, l \in DOMAIN groups :
         k < l => FirstOccurrence(items, groups[k][1])
                    < FirstOccurrence(items, groups[l][1])

\* C16 witness: the interleaved catalog [1(G1), 2(G2), 3(G1)] has been
\* grouped into G1 -> [1, 3], G2 -> [2].
C16_Witness ==
  /\ items = << [id |-> 1, group |-> "G1"], [id |-> 2, group |-> "G2"],
                [id |-> 3, group |-> "G1"] >>
  /\ groups = << << "G1", << [id |-> 1, group |-> "G1"],
                             [id |-> 3, group |-> "G1"] >> >>,
                 << "G2", << [id |-> 2, group |-> "G2"] >> >> >>

\* The entity that starts at position i of s, or << >>.
EntityAt(s, i) ==
  LET Starts(e) == /\ i + Len(e) - 1 <= Len(s)
                   /\ SubSeq(s, i, i + Len(e) - 1) = e
  IN  IF Starts(<< "&", "a", "m", "p", ";" >>) THEN << "&", "a", "m", "p", ";" >>
      ELSE IF Starts(<< "&", "l", "t", ";" >>) THEN << "&", "l", "t", ";" >>
      ELSE IF Starts(<< "&", "g", "t", ";" >>) THEN << "&", "g", "t", ";" >>
      ELSE << >>

\* The character an entity stands for.
Decoded(e) == IF e[2] = "a" THEN "&" ELSE IF e[2] = "l" THEN "<" ELSE ">"

\* Decoding of the three entities, one pass from position i on.
RECURSIVE Unescape(_, _)
Unescape(s, i) ==
  IF i > Len(s) THEN << >>
  ELSE LET e == EntityAt(s, i)
       IN  IF e = << >>
           THEN << s[i] >> \o Unescape(s, i + 1)
           ELSE << Decoded(e) >> \o Unescape(s, i + Len(e))

\* C17: once a non-empty source text has been escaped, the escaped text holds
\* no raw '<' or '>', every '&' in it starts one of &amp; &lt; &gt;, and
\* decoding the three entities gives the source text back.
C17_EscapeRoundTrip ==
  (safeCode # << >>) =>
    /\ \A i \in DOMAIN safeCode :
         /\ safeCode[i] \notin { "<", ">" }
         /\ safeCode[i] = "&" => EntityAt(safeCode, i) # << >>
    /\ Unescape(safeCode, 1) = rawCode

\* C17 witness: a source text that already reads as an entity, "&lt;", has
\* been escaped to "&amp;lt;".
C17_Witness ==
  /\ rawCode = << "&", "l", "t", ";" >>
  /\ safeCode = << "&", "a", "m", "p", ";", "l", "t", ";" >>

\* C18: at most one invocation's flag is true, and only the last issued one's;
\* a step that issues an invocation leaves every earlier flag false; a false
\* flag stays false; after unmount every flag is false.
C18_OneLiveFlag ==
  /\ [](/\ Cardinality({ t \in DOMAIN renders : renders[t].active }) <= 1
        /\ \A t \in DOMAIN renders : renders[t].active => t = Len(renders)
        /\ phase = "unmounted" => \A t \in DOMAIN renders : ~renders[t].active)
  /\ [][ \A t \in DOMAIN renders : ~renders[t].active => ~renders'[t].active ]_vars

\* C18 witness: three invocations were issued, the first two were superseded
\* while outstanding, and the view was unmounted: no flag is true.
C18_Witness ==
  /\ phase = "unmounted"
  /\ Len(renders) >= 3
  /\ \A t \in DOMAIN renders : ~renders[t].active /\ ~renders[t].settledActive

\* C19 (as claimed): whenever export is permitted and no render is
\* outstanding, lastArtifact is the result of a successful render of the
\* active diagram's source.
C19_ExportMatchesActive ==
  (phase = "mounted" /\ ~ExportDisabled /\ \A t \in DOMAIN renders : Settled(t))
    => (renders[svg].status = "fulfilled" /\ renders[svg].code = selected.code)

\* C20: the label is one of the two values; while the shell is mounted and no
\* timer is pending it is the default; and it leaves the default only in a
\* step in which a clipboard write succeeds.
C20_LabelRecovers ==
  /\ [](/\ copyStatus \in {DefaultLabel, CopiedLabel}
        /\ (phase # "unmounted" /\ timers = << >>) => copyStatus = DefaultLabel)
  /\ [][ (copyStatus = DefaultLabel /\ copyStatus' # DefaultLabel)
           => \E i \in DOMAIN writes :
                writes[i] = "pending" /\ writes'[i] = "fulfilled" ]_vars

\* C20 witness: every copy the bound allows has succeeded, every timer has
\* fired and the label is back to the default.
C20_Witness ==
  /\ phase = "mounted"
  /\ Len(writes) = MaxCopies
  /\ \A i \in DOMAIN writes : writes[i] = "fulfilled"
  /\ timers = << >>
  /\ copyStatus = DefaultLabel

====
